---- MODULE Spec2Model ----
(***************************************************************************)
(* State-machine model of docs/map.js: the tracking map page.  The page    *)
(* is single threaded; every action below is one run-to-completion piece   *)
(* of the script: the continuation after an await, a timer callback or a   *)
(* DOM event handler.                                                      *)
(*                                                                         *)
(* Angles are integers in tenths of a degree (lat 10 is 100); projected    *)
(* coordinates are integers in metres.                                     *)
(***************************************************************************)
EXTENDS Integers, Sequences, FiniteSets, TLC

VARIABLES
  dom,              \* ids of the elements the document holds
  files,            \* the static JSON documents behind data/*.json
  feed,             \* the payloads data/tle_live.json may serve
  initPc,           \* the await initMapLayers is suspended at
  fetchStatus,      \* how each initial fetch settled
  satnogs, sats, orbits,                       \* locals of initMapLayers
  stationFeatures, satFeatures, orbitFeatures, \* sources of the three layers
  layers,           \* map.getLayers(), bottom first
  currentBaseLayer,
  hidden,           \* layers whose visible property is false
  listeners,        \* checkboxes that carry a change listener
  checked,          \* the checked property of the three checkboxes
  changed,          \* checkboxes the user has changed since page load
  liveSatLayer, liveSatFeatures,
  liveIssued,       \* requests for tle_live.json issued so far
  liveInFlight,     \* the ones not settled yet
  liveOk,           \* responses that resolved with a payload so far
  liveLastData,     \* the payload of the latest such response
  liveLastApplied,  \* the request that response answered
  liveNewest,       \* the latest-issued request answered with a payload so far
  ndviIssued, ndviInFlight, ndviLayer,
  panels,           \* detail panels whose display is 'block'
  lastClick,        \* what the latest singleclick hit
  collapsed,        \* viewer-sidebar carries the class 'collapsed'
  mapWidth,         \* inline width of the map container
  uncaught          \* an event handler threw past its own code

vars == <<dom, files, feed, initPc, fetchStatus, satnogs, sats, orbits,
          stationFeatures, satFeatures, orbitFeatures, layers,
          currentBaseLayer, hidden, listeners, checked, changed,
          liveSatLayer, liveSatFeatures, liveIssued, liveInFlight, liveOk,
          liveLastData, liveLastApplied, liveNewest, ndviIssued, ndviInFlight,
          ndviLayer,
          panels, lastClick, collapsed, mapWidth, uncaught>>

initVars == <<initPc, fetchStatus, satnogs, sats, orbits,
              stationFeatures, satFeatures, orbitFeatures, listeners>>
liveVars == <<liveSatLayer, liveSatFeatures, liveIssued, liveInFlight, liveOk,
              liveLastData, liveLastApplied, liveNewest>>
ndviVars == <<ndviIssued, ndviInFlight, ndviLayer>>
toggleVars == <<checked, changed>>
panelVars == <<panels, lastClick>>
sidebarVars == <<collapsed, mapWidth, uncaught>>
worldVars == <<dom, files, feed>>

(***************************************************************************)
(* Bounds                                                                  *)
(***************************************************************************)
MaxTrackLen == 3    \* points of an orbit track
MaxPolls == 3       \* requests for the live feed (the first is at startup)
MaxInFlight == 2    \* of them unsettled at once
MaxNdvi == 2        \* NDVI generations (the first is at startup)

(***************************************************************************)
(* JavaScript values that reach the coordinate code                        *)
(***************************************************************************)
Num(n) == [k |-> "number", n |-> n]
NaN == [k |-> "NaN", n |-> 0]
NumStr(n) == [k |-> "numstr", n |-> n]     \* a string such as "10"
BadStr == [k |-> "string", n |-> 0]        \* a string such as "bad"
Undefined == [k |-> "undefined", n |-> 0]
Null == [k |-> "null", n |-> 0]

\* Number(v)
Number(v) ==
  CASE v.k = "number" -> v
    [] v.k = "numstr" -> Num(v.n)
    [] v.k = "null" -> Num(0)
    [] OTHER -> NaN

\* typeof v === 'number'
TypeofNumber(v) == v.k \in {"number", "NaN"}

\* a ?? b
Nullish(a, b) == IF a.k \in {"undefined", "null"} THEN b ELSE a

\* EPSG:3857 y of a latitude, in metres
MercY(lat) ==
  CASE lat = -69 -> -769968
    [] lat = 0 -> 0
    [] lat = 100 -> 1118890
    [] lat = 200 -> 2273031
    [] lat = 300 -> 3503550
    [] OTHER -> (lat * 111319 + (lat * 49) \div 100 + 5) \div 10

\* EPSG:3857 x of a longitude, in metres
MercX(lon) == (lon * 111319 + (lon * 49) \div 100 + 5) \div 10

\* ol.proj.fromLonLat([lon, lat])
fromLonLat(lon, lat) ==
  << IF lon.k = "number" THEN Num(MercX(lon.n)) ELSE NaN,
     IF lat.k = "number" THEN Num(MercY(lat.n)) ELSE NaN >>

(***************************************************************************)
(* Feature factory                                                         *)
(***************************************************************************)
NoFeature == [kind |-> "null", coords |-> <<>>, type |-> "", raw |-> Null]

createMarker(lon, lat, props) ==
  IF ~TypeofNumber(lon) \/ ~TypeofNumber(lat)
  THEN NoFeature
  ELSE [kind |-> "Point", coords |-> << fromLonLat(lon, lat) >>,
        type |-> props.type, raw |-> props.raw]

\* array.filter(Boolean) / filter(f => f !== null)
filterBoolean(fs) == SelectSeq(fs, LAMBDA f : f.kind # "null")

\* the loop with break in place of continue
RECURSIVE lineCoordsBreak(_, _, _)
lineCoordsBreak(track, i, coords) ==
  IF i > Len(track) THEN coords
  ELSE LET pt == track[i] IN
       IF ~pt.isArray THEN coords
       ELSE IF TypeofNumber(pt.p0) /\ TypeofNumber(pt.p1)
            THEN lineCoordsBreak(track, i + 1,
                                 Append(coords, fromLonLat(pt.p1, pt.p0)))
            ELSE coords

\* the loop of createLine over track[i..]
RECURSIVE lineCoords(_, _, _)
lineCoords(track, i, coords) ==
  IF i > Len(track) THEN coords
  ELSE LET pt == track[i] IN
       IF ~pt.isArray THEN lineCoords(track, i + 1, coords)
       ELSE IF TypeofNumber(pt.p0) /\ TypeofNumber(pt.p1)
            THEN lineCoords(track, i + 1, Append(coords, fromLonLat(pt.p1, pt.p0)))
            ELSE lineCoords(track, i + 1, coords)

createLine(track, props) ==
  LET coords == lineCoords(track, 1, <<>>) IN
  IF Len(coords) = 0
  THEN NoFeature
  ELSE [kind |-> "LineString", coords |-> coords,
        type |-> props.type, raw |-> props.raw]

\* o.track || o.path || []
orbitTrack(o) ==
  IF o.track.isArray THEN o.track.pts
  ELSE IF o.path.isArray THEN o.path.pts
  ELSE <<>>

stationFeature(s) ==
  createMarker(Number(Nullish(s.lon, s.lng)), Number(s.lat),
               [type |-> "station", raw |-> s])

satFeature(s) ==
  createMarker(
    Number(Nullish(Nullish(Nullish(s.longitude_deg, s.lon), s.lng), s.longitude)),
    Number(Nullish(Nullish(s.latitude_deg, s.lat), s.latitude)),
    [type |-> "satellite", raw |-> s])

orbitFeature(o) == createLine(orbitTrack(o), [type |-> "orbit", raw |-> o])

liveFeature(s) ==
  createMarker(Number(Nullish(Nullish(s.longitude, s.lon), s.lng)),
               Number(Nullish(s.latitude, s.lat)),
               [type |-> "satellite", raw |-> s])

buildStationFeatures(doc) ==
  filterBoolean([i \in 1..Len(doc) |-> stationFeature(doc[i])])
buildSatFeatures(doc) ==
  filterBoolean([i \in 1..Len(doc) |-> satFeature(doc[i])])
buildOrbitFeatures(doc) ==
  filterBoolean([i \in 1..Len(doc) |-> orbitFeature(doc[i])])
buildLiveFeatures(doc) ==
  filterBoolean([i \in 1..Len(doc) |-> liveFeature(doc[i])])

\* the observer marker of line 156
observerLocation == << Num(1076), Num(-69) >>
observerFeature ==
  createMarker(observerLocation[1], observerLocation[2],
               [type |-> "observer", raw |-> Null])

(***************************************************************************)
(* The document and the served data                                        *)
(***************************************************************************)
Toggles == {"toggle-stations", "toggle-satellites", "toggle-orbits"}
PanelIds == {"satellite-info", "ground-station-info", "orbit-info"}
Elements == Toggles \cup PanelIds \cup
            {"map", "basemap-switcher", "viewer-sidebar", "toggle-sidebar",
             "refresh-ndvi"}

\* a station, satellite or live record: its coordinate fields under every
\* alias the script reads (Undefined: the field is absent)
Rec(lon, lat) ==
  [lon |-> lon, lng |-> Undefined, longitude |-> Undefined,
   longitude_deg |-> Undefined, lat |-> lat, latitude |-> Undefined,
   latitude_deg |-> Undefined]
NoFields == Rec(Undefined, Undefined)

StationRecs ==
  { Rec(Num(200), Num(100)),                 \* {name:"X", lat:10, lon:20}
    Rec(Num(200), BadStr),                   \* {name:"Y", lat:"bad", lon:20}
    Rec(BadStr, Num(100)),
    Rec(Num(200), Undefined),
    Rec(Undefined, Num(100)),
    [NoFields EXCEPT !.lng = Num(100), !.lat = Num(200)],
    Rec(Num(200), NumStr(100)),
    Rec(Num(200), Null),
    NoFields }

SatRecs ==
  { [NoFields EXCEPT !.longitude_deg = Num(200), !.latitude_deg = Num(100)],
    Rec(Num(100), Num(200)),
    [NoFields EXCEPT !.longitude = Num(200), !.latitude = Num(100)],
    [NoFields EXCEPT !.longitude_deg = Num(200)],
    [NoFields EXCEPT !.lng = Num(200), !.lat = BadStr],
    [NoFields EXCEPT !.longitude_deg = Null, !.lon = Num(100),
                     !.latitude_deg = Num(200), !.lat = Num(100)],
    NoFields }

\* one entry of an orbit track: pt, pt[0], pt[1]
Pt(a, b) == [isArray |-> TRUE, p0 |-> a, p1 |-> b]
TrackEntries ==
  { Pt(Num(100), Num(200)),
    Pt(Num(200), Num(100)),
    Pt(BadStr, Num(200)),
    Pt(Num(100), Undefined),                 \* [10]
    [isArray |-> FALSE, p0 |-> Undefined, p1 |-> Undefined] }   \* null, 7, "x"

SeqsUpTo(S, n) == UNION { [1..m -> S] : m \in 0..n }
Tracks == SeqsUpTo(TrackEntries, MaxTrackLen)

Arr(pts) == [isArray |-> TRUE, pts |-> pts]
Missing == [isArray |-> FALSE, pts |-> <<>>]
OrbitRecs ==
  { [track |-> Arr(t), path |-> Missing] : t \in Tracks } \cup
  { [track |-> Missing, path |-> Arr(<< Pt(Num(200), Num(100)) >>)],
    [track |-> Arr(<<>>), path |-> Arr(<< Pt(Num(200), Num(100)) >>)],
    [track |-> Missing, path |-> Arr(<< Pt(BadStr, Num(200)) >>)],
    [track |-> Missing, path |-> Missing] }

Stations(list) == [hasStations |-> TRUE, stations |-> list]
NoStations == [hasStations |-> FALSE, stations |-> <<>>]     \* {}

PlainStation == Rec(Num(200), Num(100))
PlainSat == Rec(Num(100), Num(200))
PlainOrbit == [track |-> Arr(<< Pt(Num(100), Num(200)), Pt(Num(200), Num(100)) >>),
               path |-> Missing]
PlainFiles == [satnogs |-> Stations(<< PlainStation >>),
               sats |-> << PlainSat >>,
               orbits |-> << PlainOrbit >>]

\* the documents the data worlds range over: one dataset varies, the other
\* two stay plain
DataWorlds ==
  { [PlainFiles EXCEPT !.satnogs = Stations(d)] :
      d \in SeqsUpTo(StationRecs, 2) } \cup
  { [PlainFiles EXCEPT !.satnogs = NoStations] } \cup
  { [PlainFiles EXCEPT !.sats = d] : d \in SeqsUpTo(SatRecs, 2) } \cup
  { [PlainFiles EXCEPT !.orbits = d] : d \in SeqsUpTo(OrbitRecs, 1) } \cup
  { [PlainFiles EXCEPT !.orbits = << o, PlainOrbit >>] :
      o \in { r \in OrbitRecs : Len(r.track.pts) <= 1 } }

(***************************************************************************)
(* Startup: the state when the script's top level has run                  *)
(***************************************************************************)
Boot ==
  /\ initPc = "satnogs"
  /\ fetchStatus = [u \in {"satnogs", "sats", "orbits"} |-> "pending"]
  /\ satnogs = NoStations /\ sats = <<>> /\ orbits = <<>>
  /\ stationFeatures = <<>> /\ satFeatures = <<>> /\ orbitFeatures = <<>>
  /\ currentBaseLayer = "osm"
  /\ layers = IF observerFeature.kind # "null"
              THEN << "osm", "observer" >> ELSE << "osm" >>
  /\ hidden = {}
  /\ listeners = {}
  /\ checked = [t \in Toggles |-> TRUE]
  /\ changed = {}
  /\ liveSatLayer = FALSE /\ liveSatFeatures = <<>>
  /\ liveIssued = 1 /\ liveInFlight = {1}
  /\ liveOk = 0 /\ liveLastData = <<>> /\ liveLastApplied = 0
  /\ liveNewest = [req |-> 0, data |-> <<>>]
  /\ ndviIssued = 1 /\ ndviInFlight = 1 /\ ndviLayer = FALSE
  /\ panels = {}
  /\ lastClick = "no click"
  /\ collapsed = FALSE
  /\ mapWidth = "stylesheet"
  /\ uncaught = FALSE

(***************************************************************************)
(* initMapLayers                                                           *)
(***************************************************************************)
\* loadJSON(url): the promise it returns, settled.  ok is FALSE for a
\* non-success status, a network error and a body that does not parse.
loadJSON(url, ok) ==
  IF ok THEN [rejected |-> FALSE, value |-> files[url]]
        ELSE [rejected |-> TRUE, value |-> Null]

catchRethrows(result, default) == result

\* promise.catch(() => default)
catch(result, default) ==
  IF result.rejected THEN [rejected |-> FALSE, value |-> default] ELSE result

settled(ok) == IF ok THEN "ok" ELSE "failed"

addLayerFromFeatures(ls, layer) == Append(ls, layer)

addInitialLayersStationsFirst(ls) ==
  addLayerFromFeatures(addLayerFromFeatures(
    addLayerFromFeatures(ls, "stations"), "orbits"), "satellites")

\* lines 203-205
addInitialLayers(ls) ==
  addLayerFromFeatures(addLayerFromFeatures(
    addLayerFromFeatures(ls, "orbits"), "stations"), "satellites")

\* a rejection that reaches the try block: the catch of line 224 logs it
initAborts ==
  /\ initPc' = "aborted"
  /\ UNCHANGED <<satnogs, sats, orbits, stationFeatures, satFeatures,
                 orbitFeatures, listeners, layers>>

\* line 164 resumes
SatnogsSettled ==
  /\ initPc = "satnogs"
  /\ \E ok \in BOOLEAN :
       LET r == catch(loadJSON("satnogs", ok), Stations(<<>>)) IN
       /\ fetchStatus' = [fetchStatus EXCEPT !.satnogs = settled(ok)]
       /\ IF r.rejected THEN initAborts
          ELSE /\ satnogs' = r.value
               /\ initPc' = "sats"
               /\ UNCHANGED <<sats, orbits, stationFeatures, satFeatures,
                              orbitFeatures, listeners, layers>>
  /\ UNCHANGED <<worldVars, currentBaseLayer, hidden, toggleVars, liveVars,
                 ndviVars, panelVars, sidebarVars>>

\* line 165 resumes
SatsSettled ==
  /\ initPc = "sats"
  /\ \E ok \in BOOLEAN :
       LET r == catch(loadJSON("sats", ok), <<>>) IN
       /\ fetchStatus' = [fetchStatus EXCEPT !.sats = settled(ok)]
       /\ IF r.rejected THEN initAborts
          ELSE /\ sats' = r.value
               /\ initPc' = "orbits"
               /\ UNCHANGED <<satnogs, orbits, stationFeatures, satFeatures,
                              orbitFeatures, listeners, layers>>
  /\ UNCHANGED <<worldVars, currentBaseLayer, hidden, toggleVars, liveVars,
                 ndviVars, panelVars, sidebarVars>>

\* line 166 resumes and the function runs to its end (the view fit of
\* lines 207-213 follows the three addLayer calls and changes only the view,
\* which is not part of the state)
OrbitsSettled ==
  /\ initPc = "orbits"
  /\ \E ok \in BOOLEAN :
       LET r == catch(loadJSON("orbits", ok), <<>>) IN
       /\ fetchStatus' = [fetchStatus EXCEPT !.orbits = settled(ok)]
       /\ IF r.rejected THEN initAborts
          ELSE /\ orbits' = r.value
               /\ stationFeatures' =
                    buildStationFeatures(IF satnogs.hasStations
                                         THEN satnogs.stations ELSE <<>>)
               /\ satFeatures' = buildSatFeatures(sats)
               /\ orbitFeatures' = buildOrbitFeatures(r.value)
               /\ layers' = addInitialLayers(layers)
               /\ listeners' = Toggles \cap dom
               /\ initPc' = "done"
               /\ UNCHANGED <<satnogs, sats>>
  /\ UNCHANGED <<worldVars, currentBaseLayer, hidden, toggleVars, liveVars,
                 ndviVars, panelVars, sidebarVars>>

(***************************************************************************)
(* animateLiveSatellites                                                   *)
(***************************************************************************)
liveLon(s) == Nullish(Nullish(s.longitude, s.lon), s.lng)
liveLat(s) == Nullish(s.latitude, s.lat)

\* the body of the forEach callback, lines 246-252
updateLiveFeature(f, sat) ==
  LET lon == Number(liveLon(sat))
      lat == Number(liveLat(sat))
  IN [f EXCEPT !.coords = IF TypeofNumber(lon) /\ TypeofNumber(lat)
                          THEN << fromLonLat(lon, lat) >> ELSE @,
               !.raw = sat]

liveFeaturesRebuilt(layer, features, data) == buildLiveFeatures(data)

\* liveSatFeatures after lines 237-254
liveFeaturesAfter(layer, features, data) ==
  IF ~layer
  THEN buildLiveFeatures(data)
  ELSE [i \in DOMAIN features |->
          IF i <= Len(data) THEN updateLiveFeature(features[i], data[i])
                            ELSE features[i]]

\* the setInterval callback (and the call of line 260, which Boot holds):
\* the callback behind a guard that skips the tick while a request is out
LiveTickWhenIdle ==
  /\ liveInFlight = {}
  /\ liveIssued < MaxPolls
  /\ Cardinality(liveInFlight) < MaxInFlight
  /\ liveIssued' = liveIssued + 1
  /\ liveInFlight' = liveInFlight \cup {liveIssued + 1}
  /\ UNCHANGED <<liveSatLayer, liveSatFeatures, liveOk, liveLastData,
                 liveLastApplied, liveNewest>>
  /\ UNCHANGED <<worldVars, initVars, layers, currentBaseLayer, hidden,
                 toggleVars, ndviVars, panelVars, sidebarVars>>

\* animateLiveSatellites runs up to its await
LiveTick ==
  /\ liveIssued < MaxPolls
  /\ Cardinality(liveInFlight) < MaxInFlight
  /\ liveIssued' = liveIssued + 1
  /\ liveInFlight' = liveInFlight \cup {liveIssued + 1}
  /\ UNCHANGED <<liveSatLayer, liveSatFeatures, liveOk, liveLastData,
                 liveLastApplied, liveNewest>>
  /\ UNCHANGED <<worldVars, initVars, layers, currentBaseLayer, hidden,
                 toggleVars, ndviVars, panelVars, sidebarVars>>

\* loadJSON rejects: the catch of line 255 logs it
LiveFetchFailed ==
  /\ \E r \in liveInFlight : liveInFlight' = liveInFlight \ {r}
  /\ UNCHANGED <<liveSatLayer, liveSatFeatures, liveIssued, liveOk,
                 liveLastData, liveLastApplied, liveNewest>>
  /\ UNCHANGED <<worldVars, initVars, layers, currentBaseLayer, hidden,
                 toggleVars, ndviVars, panelVars, sidebarVars>>

\* loadJSON resolves with an array (an array is truthy: line 236 passes)
LiveFetchResolved ==
  /\ \E r \in liveInFlight, data \in feed :
       /\ liveInFlight' = liveInFlight \ {r}
       /\ liveOk' = liveOk + 1
       /\ liveLastData' = data
       /\ liveLastApplied' = r
       /\ liveNewest' = IF r > liveNewest.req
                        THEN [req |-> r, data |-> data] ELSE liveNewest
       /\ liveSatFeatures' = liveFeaturesAfter(liveSatLayer, liveSatFeatures, data)
       /\ liveSatLayer' = TRUE
       /\ layers' = IF ~liveSatLayer THEN addLayerFromFeatures(layers, "live")
                                     ELSE layers
  /\ UNCHANGED liveIssued
  /\ UNCHANGED <<worldVars, initVars, currentBaseLayer, hidden,
                 toggleVars, ndviVars, panelVars, sidebarVars>>

(***************************************************************************)
(* Basemap switcher                                                        *)
(***************************************************************************)
BaseLayerKeys == {"osm", "sat", "dark"}
BasemapValues == BaseLayerKeys \cup {"terrain", ""}

\* baseLayers[value] || baseLayers['osm']
baseLayerFor(value) == IF value \in BaseLayerKeys THEN value ELSE "osm"

\* map.removeLayer(layer)
removeLayer(ls, layer) == SelectSeq(ls, LAMBDA l : l # layer)

insertOnTop(ls, layer) == Append(ls, layer)

\* map.getLayers().insertAt(0, layer)
insertAtBottom(ls, layer) == << layer >> \o ls

BasemapChange(value) ==
  /\ "basemap-switcher" \in dom
  /\ currentBaseLayer' = baseLayerFor(value)
  /\ layers' = insertAtBottom(removeLayer(layers, currentBaseLayer),
                              baseLayerFor(value))
  /\ UNCHANGED <<worldVars, initVars, hidden, toggleVars, liveVars, ndviVars,
                 panelVars, sidebarVars>>

BasemapChanged == \E value \in BasemapValues : BasemapChange(value)

(***************************************************************************)
(* triggerNDVIGeneration                                                   *)
(***************************************************************************)
\* a click on refresh-ndvi (the call of line 300 is in Boot)
NdviRefresh ==
  /\ "refresh-ndvi" \in dom
  /\ ndviIssued < MaxNdvi
  /\ ndviIssued' = ndviIssued + 1
  /\ ndviInFlight' = ndviInFlight + 1
  /\ UNCHANGED <<ndviLayer, worldVars, initVars, layers, currentBaseLayer,
                 hidden, toggleVars, liveVars, panelVars, sidebarVars>>

\* fetch rejects, the body does not parse, or it carries an error field
NdviFailed ==
  /\ ndviInFlight > 0
  /\ ndviInFlight' = ndviInFlight - 1
  /\ UNCHANGED <<ndviIssued, ndviLayer, worldVars, initVars, layers,
                 currentBaseLayer, hidden, toggleVars, liveVars, panelVars,
                 sidebarVars>>

\* lines 284-292
NdviLoaded ==
  /\ ndviInFlight > 0
  /\ ndviInFlight' = ndviInFlight - 1
  /\ layers' = addLayerFromFeatures(
                 IF ndviLayer THEN removeLayer(layers, "ndvi") ELSE layers,
                 "ndvi")
  /\ ndviLayer' = TRUE
  /\ UNCHANGED <<ndviIssued, worldVars, initVars, currentBaseLayer, hidden,
                 toggleVars, liveVars, panelVars, sidebarVars>>

(***************************************************************************)
(* Layer checkboxes                                                        *)
(***************************************************************************)
layerOf(toggle) ==
  CASE toggle = "toggle-stations" -> "stations"
    [] toggle = "toggle-satellites" -> "satellites"
    [] toggle = "toggle-orbits" -> "orbits"

\* layer.setVisible(value)
setVisible(hid, layer, value) ==
  IF value THEN hid \ {layer} ELSE hid \cup {layer}

\* the user flips a checkbox; its change event runs the listener of lines
\* 219-221 when one is attached
ToggleChange(toggle) ==
  /\ toggle \in dom
  /\ checked' = [checked EXCEPT ![toggle] = ~@]
  /\ changed' = changed \cup {toggle}
  /\ hidden' = IF toggle \in listeners
               THEN setVisible(hidden, layerOf(toggle), ~checked[toggle])
               ELSE hidden
  /\ UNCHANGED <<worldVars, initVars, layers, currentBaseLayer, liveVars,
                 ndviVars, panelVars, sidebarVars>>

ToggleChanged == \E toggle \in Toggles : ToggleChange(toggle)

(***************************************************************************)
(* Detail panels                                                           *)
(***************************************************************************)
\* what forEachFeatureAtPixel can return: the properties and geometry kind
\* of the top feature (type "" : the feature has no type property).  The
\* script's own layers hold the types observer, station, satellite and
\* orbit; the other values reach the remaining branches of the handler.
HitFeatures ==
  [type : {"satellite", "station", "ground_station", "orbit", "observer",
           "cluster", ""},
   kind : {"Point", "LineString"},
   name : {"Observer", "X"}]

\* lines 25 and 432
featureType(f) ==
  IF f.type # "" THEN f.type
  ELSE IF f.kind = "LineString" THEN "orbit"
  ELSE IF f.kind = "Point"
       THEN (IF f.name = "Observer" THEN "observer" ELSE "unknown")
       ELSE "unknown"

clearAllButOrbit(shown) == shown \cap {"orbit-info"}

\* clearViewerPanels()
clearViewerPanels(shown) == {}

\* el.style.display = 'block' of the element, when the document holds it
show(shown, id) == IF id \in dom THEN shown \cup {id} ELSE shown

panelFor(type) ==
  CASE type = "satellite" -> "satellite-info"
    [] type \in {"station", "ground_station"} -> "ground-station-info"
    [] type = "orbit" -> "orbit-info"
    [] OTHER -> "satellite-info"

\* singleclick on a pixel with no feature
MapClickMiss ==
  /\ "map" \in dom
  /\ panels' = clearViewerPanels(panels)
  /\ lastClick' = "miss"
  /\ UNCHANGED <<worldVars, initVars, layers, currentBaseLayer, hidden,
                 toggleVars, liveVars, ndviVars, sidebarVars>>

\* singleclick on a feature
MapClickFeature ==
  /\ "map" \in dom
  /\ \E f \in HitFeatures :
       /\ panels' = show(clearViewerPanels(panels), panelFor(featureType(f)))
       /\ lastClick' = featureType(f)
  /\ UNCHANGED <<worldVars, initVars, layers, currentBaseLayer, hidden,
                 toggleVars, liveVars, ndviVars, sidebarVars>>

(***************************************************************************)
(* Sidebar toggle                                                          *)
(***************************************************************************)
\* lines 452-466: document.getElementById('map').style throws when the
\* document has no map container
SidebarToggleClick ==
  /\ "toggle-sidebar" \in dom
  /\ IF "viewer-sidebar" \notin dom
     THEN UNCHANGED <<collapsed, mapWidth, uncaught>>
     ELSE /\ collapsed' = ~collapsed
          /\ IF "map" \in dom
             THEN /\ mapWidth' = IF ~collapsed THEN "100%"
                                               ELSE "calc(100% - 300px)"
                  /\ UNCHANGED uncaught
             ELSE /\ uncaught' = TRUE
                  /\ UNCHANGED mapWidth
  /\ UNCHANGED <<worldVars, initVars, layers, currentBaseLayer, hidden,
                 toggleVars, liveVars, ndviVars, panelVars>>

(***************************************************************************)
(* Specifications                                                          *)
(***************************************************************************)
LiveA == [NoFields EXCEPT !.longitude = Num(200), !.latitude = Num(100)]
LiveB == Rec(Num(100), Num(200))
LiveBad == [NoFields EXCEPT !.longitude = BadStr, !.latitude = Num(100)]
LiveNoLat == [NoFields EXCEPT !.lng = Num(200)]
LiveRecs == {LiveA, LiveB, LiveBad, LiveNoLat}
LiveDocs == SeqsUpTo(LiveRecs, 2) \cup { << LiveB, LiveA, LiveB >> }

\* the page: layer stack, initial datasets, live polling, NDVI and basemap
Init ==
  /\ dom = Elements
  /\ files = PlainFiles
  /\ feed = { << LiveA >> }
  /\ Boot
Next ==
  \/ SatnogsSettled \/ SatsSettled \/ OrbitsSettled
  \/ LiveTick \/ LiveFetchFailed \/ LiveFetchResolved
  \/ NdviRefresh \/ NdviFailed \/ NdviLoaded
  \/ BasemapChanged
Spec == Init /\ [][Next]_vars

\* live polling alone, over the live payloads
InitLive == dom = Elements /\ files = PlainFiles /\ feed = LiveDocs /\ Boot
NextLive == LiveTick \/ LiveFetchFailed \/ LiveFetchResolved
SpecLive == InitLive /\ [][NextLive]_vars

\* the checkboxes while and after the initial datasets load
InitToggle == dom = Elements /\ files = PlainFiles /\ feed = {} /\ Boot
NextToggle == SatnogsSettled \/ SatsSettled \/ OrbitsSettled \/ ToggleChanged
SpecToggle == InitToggle /\ [][NextToggle]_vars

\* clicks on the map and on the sidebar button, over every document
InitUI == dom \in SUBSET Elements /\ files = PlainFiles /\ feed = {} /\ Boot
NextUI == MapClickMiss \/ MapClickFeature \/ SidebarToggleClick
SpecUI == InitUI /\ [][NextUI]_vars

(***************************************************************************)
(* The initial datasets alone, over the data worlds                        *)
(***************************************************************************)
InitData == dom = Elements /\ files \in DataWorlds /\ feed = {} /\ Boot
NextData == SatnogsSettled \/ SatsSettled \/ OrbitsSettled
SpecData == InitData /\ [][NextData]_vars

(***************************************************************************)
(* Claims about the initial datasets (SpecData)                            *)
(***************************************************************************)
Range(f) == { f[i] : i \in DOMAIN f }
CountIn(seq, x) == Cardinality({ i \in DOMAIN seq : seq[i] = x })
MarkersOf(fs, s) == { j \in DOMAIN fs : fs[j].raw = s }

\* what the alias list of a station / satellite record yields
stationLon(s) == Nullish(s.lon, s.lng)
stationLat(s) == s.lat
satLon(s) == Nullish(Nullish(Nullish(s.longitude_deg, s.lon), s.lng), s.longitude)
satLat(s) == Nullish(Nullish(s.latitude_deg, s.lat), s.latitude)

\* absent under every alias, or a non-numeric string
Unresolved(v) == v.k \in {"undefined", "string"}

MarkerRule(doc, fs, s, lon, lat) ==
  /\ (Unresolved(lon) \/ Unresolved(lat)) => MarkersOf(fs, s) = {}
  /\ (lon.k = "number" /\ lat.k = "number") =>
       /\ Cardinality(MarkersOf(fs, s)) = CountIn(doc, s)
       /\ \A j \in MarkersOf(fs, s) :
            fs[j].kind = "Point" /\ fs[j].coords = << fromLonLat(lon, lat) >>

\* C1: when initMapLayers has run, a station or satellite record whose
\* latitude or longitude is absent under every alias or is a non-numeric
\* string has no marker in its layer, and a record whose latitude and
\* longitude are both numbers has exactly one marker, placed at (lon, lat).
C1_MarkerOnlyForNumericRecord ==
  initPc = "done" =>
    /\ (fetchStatus.satnogs = "ok" /\ files.satnogs.hasStations) =>
         \A s \in Range(files.satnogs.stations) :
           MarkerRule(files.satnogs.stations, stationFeatures, s,
                      stationLon(s), stationLat(s))
    /\ fetchStatus.sats = "ok" =>
         \A s \in Range(files.sats) :
           MarkerRule(files.sats, satFeatures, s, satLon(s), satLat(s))

LayerIsOnMap(l) == \E i \in DOMAIN layers : layers[i] = l
Failed(u) == fetchStatus[u] = "failed"

\* C6: a failed fetch of one initial dataset is replaced by the empty
\* default and never reaches the surrounding try block; when the other
\* fetches have settled all three layers are on the map, the failed dataset
\* has no features and every record of a dataset that did load, if its
\* coordinates are numbers (its track holds a numeric pair), has its feature.
C6_FetchFailureIsIsolated ==
  (\E u \in DOMAIN fetchStatus : Failed(u)) =>
    /\ initPc # "aborted"
    /\ (Failed("satnogs") /\ initPc # "satnogs") => satnogs = Stations(<<>>)
    /\ (Failed("sats") /\ initPc \notin {"satnogs", "sats"}) => sats = <<>>
    /\ initPc = "done" =>
         /\ LayerIsOnMap("orbits") /\ LayerIsOnMap("stations")
         /\ LayerIsOnMap("satellites")
         /\ IF Failed("satnogs") THEN stationFeatures = <<>>
            ELSE \A s \in Range(files.satnogs.stations) :
                   (stationLon(s).k = "number" /\ stationLat(s).k = "number")
                     => MarkersOf(stationFeatures, s) # {}
         /\ IF Failed("sats") THEN satFeatures = <<>>
            ELSE \A s \in Range(files.sats) :
                   (satLon(s).k = "number" /\ satLat(s).k = "number")
                     => MarkersOf(satFeatures, s) # {}
         /\ IF Failed("orbits") THEN orbitFeatures = <<>>
            ELSE \A o \in Range(files.orbits) :
                   (\E i \in DOMAIN orbitTrack(o) :
                      /\ orbitTrack(o)[i].isArray
                      /\ orbitTrack(o)[i].p0.k = "number"
                      /\ orbitTrack(o)[i].p1.k = "number")
                     => MarkersOf(orbitFeatures, o) # {}

\* one dataset failed, the other two are drawn
C6_Witness ==
  /\ initPc = "done"
  /\ Failed("sats") /\ ~Failed("satnogs") /\ ~Failed("orbits")
  /\ satFeatures = <<>>
  /\ stationFeatures # <<>> /\ orbitFeatures # <<>>
  /\ LayerIsOnMap("satellites")

\* an array whose first two entries are numbers
WellFormed(pt) == pt.isArray /\ pt.p0.k = "number" /\ pt.p1.k = "number"
WellFormedPairs(track) == SelectSeq(track, WellFormed)
Vertices(track) ==
  [j \in 1..Len(WellFormedPairs(track)) |->
     fromLonLat(WellFormedPairs(track)[j].p1, WellFormedPairs(track)[j].p0)]
WithLine(doc) ==
  SelectSeq(doc, LAMBDA o : Len(WellFormedPairs(orbitTrack(o))) > 0)

\* C8: the orbit layer holds, in order, one line per orbit whose track has
\* at least one well-formed pair; the line's vertices are exactly the
\* well-formed pairs of the track in their order, the malformed entries
\* skipped; an orbit whose track is empty, missing or all malformed
\* contributes no feature.
C8_LineFromWellFormedPairs ==
  (initPc = "done" /\ fetchStatus.orbits = "ok") =>
    /\ Len(orbitFeatures) = Len(WithLine(files.orbits))
    /\ \A k \in DOMAIN orbitFeatures :
         /\ orbitFeatures[k].kind = "LineString"
         /\ orbitFeatures[k].raw = WithLine(files.orbits)[k]
         /\ orbitFeatures[k].coords =
              Vertices(orbitTrack(WithLine(files.orbits)[k]))

\* a track with a malformed entry between two well-formed pairs, next to an
\* orbit that yields no line
C8_Witness ==
  /\ initPc = "done" /\ fetchStatus.orbits = "ok"
  /\ \E k \in DOMAIN orbitFeatures :
       LET t == orbitTrack(orbitFeatures[k].raw) IN
       /\ Len(t) = 3 /\ WellFormed(t[1]) /\ ~WellFormed(t[2]) /\ WellFormed(t[3])
       /\ t[1] # t[3]
       /\ Len(orbitFeatures[k].coords) = 2

\* an all-malformed track leaves the orbit layer empty
C8_WitnessNoLine ==
  /\ initPc = "done" /\ fetchStatus.orbits = "ok"
  /\ Len(files.orbits) = 1 /\ Len(orbitTrack(files.orbits[1])) = 2
  /\ orbitFeatures = <<>>

(***************************************************************************)
(* Claims about the detail panels and the document (SpecUI)                *)
(***************************************************************************)
\* C2: with the three panel containers in the document, the visible panels
\* are fixed by the latest click alone and are never more than one: none
\* after a click that hit no feature (and before any click), the station
\* panel for type station or ground_station, the orbit panel for type
\* orbit, the satellite panel for type satellite, observer or unknown.
C2_OnePanelByLastClick ==
  PanelIds \subseteq dom =>
    /\ Cardinality(panels) <= 1
    /\ lastClick \in {"no click", "miss"} => panels = {}
    /\ lastClick \in {"station", "ground_station"} =>
         panels = {"ground-station-info"}
    /\ lastClick = "orbit" => panels = {"orbit-info"}
    /\ lastClick \in {"satellite", "observer", "unknown"} =>
         panels = {"satellite-info"}

C2_Witness ==
  /\ PanelIds \subseteq dom
  /\ lastClick = "station"
  /\ panels = {"ground-station-info"}

\* C7: whatever elements the document lacks, no handler throws an error
\* that nothing catches.
C7_NoUncaughtError == uncaught = FALSE

(***************************************************************************)
(* Claims about the checkboxes (SpecToggle)                                *)
(***************************************************************************)
\* C4: a dataset layer that is on the map and whose checkbox the user has
\* changed, at any time since page load, is visible exactly when the
\* checkbox is checked; the checkboxes hide no other layer.
C4_VisibilityFollowsCheckbox ==
  /\ \A t \in changed :
       LayerIsOnMap(layerOf(t)) => ((layerOf(t) \notin hidden) <=> checked[t])
  /\ hidden \subseteq { layerOf(t) : t \in changed }

(***************************************************************************)
(* Claims about the live updater (SpecLive)                                *)
(***************************************************************************)
Numeric(v) == Number(v).k = "number"

\* a response is applied to features that already exist
LiveUpdateStep == liveSatLayer /\ liveOk' = liveOk + 1

\* C3: when a response is applied to existing live features, every feature
\* whose index the response has moves to the entry's coordinates if the
\* entry's longitude and latitude are both numeric, keeps its geometry if
\* they are not, and in both cases takes the entry as its raw payload.
C3_UpdateMovesOrKeeps ==
  [][ LiveUpdateStep =>
        \A i \in DOMAIN liveSatFeatures :
          i <= Len(liveLastData') =>
            LET e == liveLastData'[i] IN
            /\ liveSatFeatures'[i].raw = e
            /\ IF Numeric(liveLon(e)) /\ Numeric(liveLat(e))
               THEN liveSatFeatures'[i].coords =
                      << fromLonLat(Number(liveLon(e)), Number(liveLat(e))) >>
               ELSE liveSatFeatures'[i].coords = liveSatFeatures[i].coords
    ]_vars

C9_State ==
  /\ liveSatLayer <=> liveOk > 0
  /\ CountIn(layers, "live") = IF liveSatLayer THEN 1 ELSE 0
  /\ ~liveSatLayer => liveSatFeatures = <<>>

C9_Step ==
  \* built by the first response that resolves, from its payload
  /\ (~liveSatLayer /\ liveSatLayer') =>
       /\ liveOk = 0 /\ liveOk' = 1
       /\ Len(liveSatFeatures') <= Len(liveLastData')
       /\ \A j \in DOMAIN liveSatFeatures' :
            liveSatFeatures'[j].raw \in Range(liveLastData')
  \* from then on the features are neither added to nor removed
  /\ liveSatLayer =>
       /\ liveSatLayer'
       /\ Len(liveSatFeatures') = Len(liveSatFeatures)
       /\ CountIn(layers', "live") = 1
  \* a request that ends without a payload, and a timer tick, change nothing
  /\ (liveOk' = liveOk) =>
       UNCHANGED <<liveSatFeatures, liveSatLayer, layers>>

\* C9: under every interleaving of timer ticks and responses the live
\* features and the live layer are built once, by the first response that
\* resolves; afterwards the number of live features never changes, whatever
\* the length of a response, and a failed fetch leaves features, positions
\* and layers as they were.
C9_BuiltOnceNeverResized == []C9_State /\ [][C9_Step]_vars

\* a longer response applied to one feature while another request is out
C9_Witness ==
  /\ liveOk >= 2
  /\ Len(liveSatFeatures) = 1
  /\ Len(liveLastData) = 3
  /\ liveInFlight # {}

(***************************************************************************)
(* Claims about the layer stack (Spec)                                     *)
(***************************************************************************)
IsBase(layer) == layer \in BaseLayerKeys
Overlays(ls) == SelectSeq(ls, LAMBDA l : ~IsBase(l))
BaseCount(ls) == Cardinality({ i \in DOMAIN ls : IsBase(ls[i]) })

C5_State ==
  /\ BaseCount(layers) = 1
  /\ layers[1] = currentBaseLayer
  /\ IsBase(layers[1])

C5_Step ==
  BasemapChanged =>
    /\ Overlays(layers') = Overlays(layers)
    /\ Len(layers') = Len(layers)
    /\ BaseCount(layers') = 1

IndexOf(ls, layer) == CHOOSE i \in DOMAIN ls : ls[i] = layer

\* C10: the three initial layers come onto the map together and, in every
\* state that has them, the orbit layer lies below the station layer and the
\* station layer below the satellite layer.
C10_OrbitsStationsSatellites ==
  /\ LayerIsOnMap("orbits") <=> LayerIsOnMap("stations")
  /\ LayerIsOnMap("stations") <=> LayerIsOnMap("satellites")
  /\ LayerIsOnMap("orbits") =>
       /\ IndexOf(layers, "orbits") < IndexOf(layers, "stations")
       /\ IndexOf(layers, "stations") < IndexOf(layers, "satellites")

\* the initial layers between the live layer and a refreshed NDVI layer,
\* after a failed fetch and a basemap change
C10_Witness ==
  /\ Overlays(layers) = << "observer", "live", "orbits", "stations",
                           "satellites", "ndvi" >>
  /\ currentBaseLayer = "sat"
  /\ Failed("sats")

(***************************************************************************)
(* The live updater has no in-flight guard (SpecLive)                      *)
(***************************************************************************)
\* the position a live record is drawn at
livePosition(s) == << fromLonLat(Number(liveLon(s)), Number(liveLat(s))) >>

\* the latest response applied answers a request issued before one whose
\* response was applied earlier
StaleApplied == liveLastApplied < liveNewest.req

\* C11: nothing holds a poll back while another is outstanding and nothing
\* orders the responses: a timer tick issues a request whatever is in
\* flight, the response to any outstanding request, the earliest included,
\* can be the next one applied, and the markers carry the payload of the
\* response applied last, also when it answers an older request than one
\* applied before it.
C11_NoInFlightGuard ==
  /\ (liveIssued < MaxPolls /\ Cardinality(liveInFlight) < MaxInFlight)
       => ENABLED LiveTick
  /\ \A r \in liveInFlight :
       ENABLED (LiveFetchResolved /\ liveLastApplied' = r)
  /\ liveSatLayer =>
       \A i \in DOMAIN liveSatFeatures :
         i <= Len(liveLastData) =>
           /\ liveSatFeatures[i].raw = liveLastData[i]
           /\ liveSatFeatures[i].coords = livePosition(liveLastData[i])

\* every request is settled, the earlier one's response came last, and the
\* marker rests at its position, not at the later response's
C11_Witness ==
  /\ StaleApplied
  /\ liveInFlight = {}
  /\ Len(liveSatFeatures) >= 1 /\ Len(liveLastData) >= 1
  /\ Len(liveNewest.data) >= 1
  /\ liveSatFeatures[1].coords = livePosition(liveLastData[1])
  /\ liveSatFeatures[1].coords # livePosition(liveNewest.data[1])
  /\ liveLastData[1] = LiveA /\ liveNewest.data[1] = LiveB

====
